---- MODULE Spec2Model ----
(***************************************************************************)
(* Model of the traefik-real-ip middleware (darki73/traefik-real-ip).      *)
(*                                                                         *)
(* The repository holds two revisions of the handler:                      *)
(*   "fields"   - src/real_ip.go: the providers are struct fields, the     *)
(*                preferred provider is asked first, generic is the        *)
(*                fallback;                                                *)
(*   "registry" - src/unnamed/part_001: the providers live in a map, every *)
(*                enabled provider is asked and the results are kept in    *)
(*                trip.providersIPs.                                       *)
(* One instance of either revision is constructed by New and then serves a *)
(* sequence of requests.                                                   *)
(*                                                                         *)
(* Text is a sequence of lexemes: an address literal such as "10.0.0.20",  *)
(* a blank " ", a comma ",", a slash "/", a prefix length, or text that is *)
(* no address.  An IP address is a sequence of bits; a network is an       *)
(* address with a prefix length.                                           *)
(***************************************************************************)
EXTENDS Integers, Sequences, FiniteSets, TLC

\* Number of requests one instance serves in a behaviour.
MaxRequests == 2

\* ServeHTTP calls running at the same time on one instance.
MaxCalls == 2

\* ------------------------------------------------------------------------
\* Text and addresses

\* net.ParseIP / net.ParseCIDR report failure with nil.
Nil == <<>>
NilNet == [ip |-> Nil, bits |-> -1]

\* The textual forms of addresses and the address each denotes.  The
\* IPv4-mapped form "::ffff:10.0.0.50" denotes the address of "10.0.0.50".
IPText ==
    [t \in {"10.0.0.20", "10.0.0.21", "10.0.0.30", "10.0.0.40", "10.0.0.41",
            "10.0.0.50", "::ffff:10.0.0.50", "127.0.0.1", "127.0.0.2"} |->
        CASE t = "10.0.0.20" -> <<0, 0, 0, 0>>
          [] t = "10.0.0.21" -> <<0, 0, 0, 1>>
          [] t = "10.0.0.30" -> <<0, 0, 1, 0>>
          [] t = "10.0.0.40" -> <<0, 1, 0, 0>>
          [] t = "10.0.0.41" -> <<0, 1, 0, 1>>
          [] t = "10.0.0.50" -> <<0, 1, 1, 0>>
          [] t = "::ffff:10.0.0.50" -> <<0, 1, 1, 0>>
          [] t = "127.0.0.1" -> <<1, 0, 0, 0>>
          [] t = "127.0.0.2" -> <<1, 0, 0, 1>>]

\* The textual forms of prefix lengths, in bits of the model's addresses.
PrefixText == [t \in {"0", "1", "2", "3", "4"} |->
    CASE t = "0" -> 0 [] t = "1" -> 1 [] t = "2" -> 2 [] t = "3" -> 3
      [] t = "4" -> 4]

\* net.ParseIP: the address a text denotes, Nil when it denotes none.
ParseIP(s) ==
    IF Len(s) = 1 /\ s[1] \in DOMAIN IPText THEN IPText[s[1]] ELSE Nil

\* IP.Mask: the first `bits` bits kept, the others cleared.
Mask(ip, bits) == [i \in 1..Len(ip) |-> IF i <= bits THEN ip[i] ELSE 0]

\* net.ParseCIDR: "address/prefix" as a network (address masked), else NilNet.
ParseCIDR(s) ==
    IF /\ Len(s) = 3
       /\ s[2] = "/"
       /\ ParseIP(<<s[1]>>) # Nil
       /\ s[3] \in DOMAIN PrefixText
       /\ PrefixText[s[3]] <= Len(ParseIP(<<s[1]>>))
    THEN [ip |-> Mask(ParseIP(<<s[1]>>), PrefixText[s[3]]),
          bits |-> PrefixText[s[3]]]
    ELSE NilNet

\* IPNet.Contains: the address masked by the network's mask is the network's.
Contains(network, ip) == Mask(ip, network.bits) = network.ip

\* IP.Equal: same address, whatever the textual form it was parsed from.
Equal(ip, other) == ip = other

\* strings.TrimSpace
RECURSIVE TrimLeft(_)
TrimLeft(s) == IF s # <<>> /\ Head(s) = " " THEN TrimLeft(Tail(s)) ELSE s

RECURSIVE TrimRight(_)
TrimRight(s) ==
    IF s # <<>> /\ s[Len(s)] = " " THEN TrimRight(SubSeq(s, 1, Len(s) - 1)) ELSE s

TrimSpace(s) == TrimRight(TrimLeft(s))

\* strings.Split(s, ","): the pieces between the commas ("" gives one piece).
RECURSIVE Split(_)
Split(s) ==
    IF \E i \in 1..Len(s) : s[i] = ","
    THEN LET i == CHOOSE j \in 1..Len(s) :
                    s[j] = "," /\ \A k \in 1..(j - 1) : s[k] # ","
         IN  <<SubSeq(s, 1, i - 1)>> \o Split(SubSeq(s, i + 1, Len(s)))
    ELSE <<s>>

\* strings.ToLower on the provider names the configurations use.
ToLower(s) ==
    [i \in 1..Len(s) |->
        CASE s[i] = "Cloudflare" -> "cloudflare"
          [] s[i] = "Qrator" -> "qrator"
          [] s[i] = "Generic" -> "generic"
          [] OTHER -> s[i]]

\* Go maps: a function on the keys present.
EmptyMap == [k \in {} |-> <<>>]
MapDelete(m, key) == [k \in DOMAIN m \ {key} |-> m[k]]

\* ------------------------------------------------------------------------
\* Providers and their headers

XForwardedFor == "X-Forwarded-For"
XRealIp == "X-Real-Ip"
TrueClientIP == "True-Client-IP"
CFConnectingIP == "CF-Connecting-IP"
XQratorIPSource == "X-Qrator-IP-Source"

HeaderNames == {XForwardedFor, XRealIp, TrueClientIP, CFConnectingIP, XQratorIPSource}

\* GetHeaders of each provider, in the order the Initialize functions list them.
GenericHeaders == <<XForwardedFor, XRealIp>>
CloudflareHeaders == <<TrueClientIP, CFConnectingIP>>
QratorHeaders == <<XQratorIPSource>>

\* The provider names, as text.
GenericName == <<"generic">>
CloudflareName == <<"cloudflare">>
QratorName == <<"qrator">>

\* trip.availableProviders (src/real_ip.go) / the keys of Providers.providers
availableProviders == <<GenericName, CloudflareName, QratorName>>

\* ------------------------------------------------------------------------
\* Configurations handed to New

NoText == <<>>
Net127 == <<"127.0.0.1", "/", "1">>
InvalidText == <<"invalid">>

\* The exclusion lists: none; the 127 network with one unparseable and one
\* valid excluded address; an unparseable network; an out-of-range prefix
\* after a valid network.
ExclusionChoices ==
    { [excludedNetworks |-> <<>>, excludedAddresses |-> <<>>],
      [excludedNetworks |-> <<Net127>>,
       excludedAddresses |-> <<InvalidText, <<"10.0.0.50">>>>],
      [excludedNetworks |-> <<InvalidText>>, excludedAddresses |-> <<>>],
      [excludedNetworks |-> <<Net127, <<"10.0.0.20", "/", "9">>>>,
       excludedAddresses |-> <<>>] }

ProvidersChoices ==
    { <<>>, <<QratorName>>, <<GenericName>>, <<<<" ", "Cloudflare">>>>,
      <<QratorName, InvalidText>> }

PreferredChoices ==
    { NoText, GenericName, CloudflareName, QratorName,
      InvalidText, <<"Qrator">> }

Configs ==
    { [excludedNetworks |-> x.excludedNetworks,
       excludedAddresses |-> x.excludedAddresses,
       providers |-> p,
       providersIsNil |-> nil,
       preferredProvider |-> pref] :
        x \in ExclusionChoices, p \in ProvidersChoices,
        pref \in PreferredChoices, nil \in BOOLEAN }

\* The configurations tried: the full exclusion lists with every preferred
\* provider and the default providers list, and with the other providers
\* lists under the preferences that name a provider of the list or outside
\* it; the other exclusion lists with the defaults.  A nil providers list
\* is an empty one.
UsedConfigs ==
    { c \in Configs :
        /\ c.providersIsNil => c.providers = <<>> /\ c.preferredProvider = QratorName
        /\ c.excludedAddresses = <<>> =>
              c.providers = <<>> /\ c.preferredProvider = NoText
        /\ c.providers = <<QratorName>> =>
              c.preferredProvider \in {QratorName, CloudflareName, InvalidText}
        /\ c.providers = <<GenericName>> => c.preferredProvider = CloudflareName
        /\ c.providers = <<<<" ", "Cloudflare">>>> =>
              c.preferredProvider \in {NoText, CloudflareName, <<"Qrator">>} }

VARIABLES
    revision,           \* which revision of the handler this instance is
    config,             \* the *Config handed to New
    pc,                 \* "new", "failed", "idle", "handling", "served"
    err,                \* the error New returned ("" for nil)
    excludedNetworks,   \* trip.excludedNetworks, shared with every provider
    excludedAddresses,  \* trip.excludedAddresses, shared with every provider
    providers,          \* the provider instances the handler holds (non-nil)
    preferredProvider,  \* trip.preferredProvider
    providersIPs,       \* trip.providersIPs
    values,             \* values[p]: the values map of provider p
    request,            \* request.Header of the request being handled
    arrived,            \* the headers as the request arrived
    returned,           \* what GetRealIP of each provider asked returned
    realIP,             \* the local realIP when ServeHTTP returned
    served,             \* requests delivered to this instance
    nextCalls,          \* calls of trip.next.ServeHTTP
    forwarded,          \* the headers trip.next.ServeHTTP was last given
    calls               \* calls[c]: the locals of ServeHTTP call c running
                        \* concurrently with the other calls

vars == <<revision, config, pc, err, excludedNetworks, excludedAddresses,
          providers, preferredProvider, providersIPs, values, request, arrived,
          returned, realIP, served, nextCalls, forwarded, calls>>

NoRequest == [h \in HeaderNames |-> NoText]

\* The ServeHTTP calls the host can run at the same time on one instance.
Calls == 1..MaxCalls

\* A call the host has not started.
IdleCall ==
    [at |-> "idle", request |-> NoRequest, arrived |-> NoRequest,
     provider |-> NoText, header |-> 0, todo |-> {}, result |-> NoText,
     realIP |-> NoText]

\* The values maps of the three providers as Initialize leaves them.
NoValues == [p \in {GenericName, CloudflareName, QratorName} |-> EmptyMap]

Init ==
    /\ revision \in {"fields", "registry"}
    /\ config \in UsedConfigs
    /\ pc = "new"
    /\ err = ""
    /\ excludedNetworks = <<>>
    /\ excludedAddresses = <<>>
    /\ providers = {}
    /\ preferredProvider = NoText
    /\ providersIPs = EmptyMap
    /\ values = NoValues
    /\ request = NoRequest
    /\ arrived = NoRequest
    /\ returned = EmptyMap
    /\ realIP = NoText
    /\ served = 0
    /\ nextCalls = 0
    /\ forwarded = NoRequest
    /\ calls = [c \in Calls |-> IdleCall]

\* ------------------------------------------------------------------------
\* New

\* IsValidProvider comparing the name lower-cased and trimmed.
IsValidProvider_Normalised(provider) ==
    \E i \in 1..Len(availableProviders) :
        availableProviders[i] = TrimSpace(ToLower(provider))

\* TraefikRealIP.IsValidProvider / Providers.IsValidProvider
IsValidProvider(provider) ==
    \E i \in 1..Len(availableProviders) : availableProviders[i] = provider

\* TraefikRealIP.ConfigHasProvider
ConfigHasProvider(provider, list) ==
    \E i \in 1..Len(list) : list[i] = provider

IsIP(ip) == ip # Nil

\* The first loop of New: every entry through net.ParseCIDR.
ParsedNetworks(cfg) ==
    [i \in 1..Len(cfg.excludedNetworks) |-> ParseCIDR(cfg.excludedNetworks[i])]

\* The second loop of New: the entries net.ParseIP accepts, in order.
ParsedAddresses(cfg) ==
    SelectSeq([i \in 1..Len(cfg.excludedAddresses) |-> ParseIP(cfg.excludedAddresses[i])],
              IsIP)

Fail(error) ==
    /\ pc' = "failed"
    /\ err' = error
    /\ UNCHANGED <<excludedNetworks, excludedAddresses, providers,
                   preferredProvider>>

Constructed(enabled) ==
    /\ pc' = "idle"
    /\ err' = ""
    /\ excludedNetworks' = ParsedNetworks(config)
    /\ excludedAddresses' = ParsedAddresses(config)
    /\ preferredProvider' = config.preferredProvider
    /\ providers' = enabled

\* The providers initialised when the default branch is taken for a nil or an
\* empty providers list only.
FieldProviders_NilOrEmpty(cfg) ==
    {GenericName} \cup
    IF cfg.providersIsNil \/ Len(cfg.providers) = 0
    THEN {CloudflareName, QratorName}
    ELSE {p \in {CloudflareName, QratorName} : ConfigHasProvider(p, cfg.providers)}

\* The providers New of src/real_ip.go initialises.
FieldProviders(cfg) ==
    {GenericName} \cup
    IF ~cfg.providersIsNil \/ Len(cfg.providers) = 0
    THEN {CloudflareName, QratorName}
    ELSE {p \in {CloudflareName, QratorName} : ConfigHasProvider(p, cfg.providers)}

\* New of src/real_ip.go
New ==
    /\ pc = "new"
    /\ revision = "fields"
    /\ IF \E i \in 1..Len(config.excludedNetworks) : ParsedNetworks(config)[i] = NilNet
       THEN Fail("invalid CIDR address")
       ELSE IF /\ config.preferredProvider # NoText
               /\ ~IsValidProvider(config.preferredProvider)
       THEN Fail("preferred provider is not valid")
       ELSE IF \E i \in 1..Len(config.providers) : ~IsValidProvider(config.providers[i])
       THEN Fail("provider is not valid")
       ELSE Constructed(FieldProviders(config))
    /\ UNCHANGED <<calls, revision, config, providersIPs, values, request, arrived,
                   returned, realIP, served, nextCalls, forwarded>>

\* The keys of trip.providers New of the registry revision ends with.
RegistryProviders(cfg) ==
    IF Len(cfg.providers) = 0
    THEN {availableProviders[i] : i \in 1..Len(availableProviders)}
    ELSE {GenericName} \cup
         {p \in {GenericName, CloudflareName, QratorName} :
             \E i \in 1..Len(cfg.providers) :
                 TrimSpace(ToLower(cfg.providers[i])) = p}

\* New of the registry revision
NewRegistry ==
    /\ pc = "new"
    /\ revision = "registry"
    /\ IF \E i \in 1..Len(config.excludedNetworks) : ParsedNetworks(config)[i] = NilNet
       THEN Fail("invalid CIDR address")
       ELSE IF /\ config.preferredProvider # NoText
               /\ ~IsValidProvider(config.preferredProvider)
       THEN Fail("invalid preferred provider")
       ELSE IF \E i \in 1..Len(config.providers) :
                  ~IsValidProvider(TrimSpace(ToLower(config.providers[i])))
       THEN Fail("invalid provider")
       ELSE Constructed(RegistryProviders(config))
    /\ UNCHANGED <<calls, revision, config, providersIPs, values, request, arrived,
                   returned, realIP, served, nextCalls, forwarded>>

\* ------------------------------------------------------------------------
\* The providers

\* GenericProvider.isExcludedIP without the loop over the excluded addresses.
GenericIsExcludedIP_NetworksOnly(address) ==
    LET ip == ParseIP(address)
    IN  IF ip = Nil THEN TRUE
        ELSE IF \E i \in 1..Len(excludedNetworks) : Contains(excludedNetworks[i], ip)
        THEN TRUE
        ELSE FALSE

\* GenericProvider.isExcludedIP
GenericIsExcludedIP(address) ==
    LET ip == ParseIP(address)
    IN  IF ip = Nil THEN TRUE
        ELSE IF \E i \in 1..Len(excludedNetworks) : Contains(excludedNetworks[i], ip)
        THEN TRUE
        ELSE IF \E i \in 1..Len(excludedAddresses) : Equal(ip, excludedAddresses[i])
        THEN TRUE
        ELSE FALSE

\* CloudflareProvider.isExcludedIP
CloudflareIsExcludedIP(address) ==
    LET ip == ParseIP(address)
    IN  IF ip = Nil THEN TRUE
        ELSE IF \E i \in 1..Len(excludedNetworks) : Contains(excludedNetworks[i], ip)
        THEN TRUE
        ELSE IF \E i \in 1..Len(excludedAddresses) : Equal(ip, excludedAddresses[i])
        THEN TRUE
        ELSE FALSE

\* QratorProvider.isExcludedIP letting text that is no address through.
QratorIsExcludedIP_FailOpen(address) ==
    LET ip == ParseIP(address)
    IN  IF ip = Nil THEN FALSE
        ELSE IF \E i \in 1..Len(excludedNetworks) : Contains(excludedNetworks[i], ip)
        THEN TRUE
        ELSE IF \E i \in 1..Len(excludedAddresses) : Equal(ip, excludedAddresses[i])
        THEN TRUE
        ELSE FALSE

\* QratorProvider.isExcludedIP
QratorIsExcludedIP(address) ==
    LET ip == ParseIP(address)
    IN  IF ip = Nil THEN TRUE
        ELSE IF \E i \in 1..Len(excludedNetworks) : Contains(excludedNetworks[i], ip)
        THEN TRUE
        ELSE IF \E i \in 1..Len(excludedAddresses) : Equal(ip, excludedAddresses[i])
        THEN TRUE
        ELSE FALSE

\* http.Header.Get: the header's value, "" when the request has none.
Get(req, header) == req[header]

\* http.Header.Add in place of Set: a value the header has already stays the
\* one Get returns.
Set_Add(req, header, value) ==
    IF req[header] = NoText THEN [req EXCEPT ![header] = value] ELSE req

\* http.Header.Set: the header's value replaced.
Set(req, header, value) == [req EXCEPT ![header] = value]

\* fillValues storing a header only when the map holds no entry for it yet.
fillValues_KeepRemembered(headers, vals, req) ==
    LET present == {headers[i] : i \in {j \in 1..Len(headers) : Get(req, headers[j]) # NoText}}
    IN  [h \in DOMAIN vals \cup present |->
            IF h \in DOMAIN vals THEN vals[h] ELSE TrimSpace(Get(req, h))]

\* fillValues (the same in the three providers): every header of the
\* provider the request carries is stored trimmed; the other entries of the
\* provider's map stay as they are.
fillValues(headers, vals, req) ==
    LET present == {headers[i] : i \in {j \in 1..Len(headers) : Get(req, headers[j]) # NoText}}
    IN  [h \in DOMAIN vals \cup present |->
            IF h \in present THEN TrimSpace(Get(req, h)) ELSE vals[h]]

\* The loop over the forward chain: the first token that is not excluded.
RECURSIVE FirstOfChain(_)
FirstOfChain(chain) ==
    IF chain = <<>> THEN NoText
    ELSE IF ~GenericIsExcludedIP(Head(chain)) THEN Head(chain)
    ELSE FirstOfChain(Tail(chain))

TrimAll(chain) == [i \in 1..Len(chain) |-> TrimSpace(chain[i])]

\* GenericProvider.GetRealIP reading the forward chain before X-Real-Ip.
GenericGetRealIP_ChainFirst(vals) ==
    IF XForwardedFor \in DOMAIN vals
       /\ FirstOfChain(TrimAll(Split(vals[XForwardedFor]))) # NoText
    THEN FirstOfChain(TrimAll(Split(vals[XForwardedFor])))
    ELSE IF XRealIp \in DOMAIN vals /\ ~GenericIsExcludedIP(vals[XRealIp])
    THEN vals[XRealIp]
    ELSE NoText

\* GenericProvider.GetRealIP after fillValues, on the provider's map.
GenericGetRealIP(vals) ==
    IF XRealIp \in DOMAIN vals /\ ~GenericIsExcludedIP(vals[XRealIp])
    THEN vals[XRealIp]
    ELSE IF XForwardedFor \in DOMAIN vals
    THEN FirstOfChain(TrimAll(Split(vals[XForwardedFor])))
    ELSE NoText

\* CloudflareProvider.GetRealIP after fillValues: the values it can return.
\* The loop ranges over a Go map, whose iteration order is not fixed: any
\* entry that is not excluded can be the first one met.
CloudflareGetRealIP(vals) ==
    LET found == {vals[h] : h \in {k \in DOMAIN vals : ~CloudflareIsExcludedIP(vals[k])}}
    IN  IF found = {} THEN {NoText} ELSE found

\* QratorProvider.GetRealIP after fillValues: the values it can return.
QratorGetRealIP(vals) ==
    LET found == {vals[h] : h \in {k \in DOMAIN vals : ~QratorIsExcludedIP(vals[k])}}
    IN  IF found = {} THEN {NoText} ELSE found

\* ------------------------------------------------------------------------
\* Requests

XRealIpValues == { NoText, <<" ", "10.0.0.20", " ">>, <<"::ffff:10.0.0.50">> }
XForwardedForValues ==
    { NoText, <<"127.0.0.2", ",", " ", "10.0.0.21">>, <<"unknown", ",", "127.0.0.1">> }
TrueClientIPValues == { NoText, <<"10.0.0.40">>, <<"127.0.0.2">> }
CFConnectingIPValues == { NoText, <<"10.0.0.41">> }
XQratorIPSourceValues == { NoText, <<"10.0.0.30">> }

Requests ==
    { [h \in HeaderNames |->
          CASE h = XRealIp -> xri
            [] h = XForwardedFor -> xff
            [] h = TrueClientIP -> tci
            [] h = CFConnectingIP -> cfc
            [] h = XQratorIPSource -> xq] :
        xri \in XRealIpValues, xff \in XForwardedForValues,
        tci \in TrueClientIPValues, cfc \in CFConnectingIPValues,
        xq \in XQratorIPSourceValues }

\* The host hands a request to the handler.
Receive ==
    /\ pc = "idle"
    /\ served < MaxRequests
    /\ \E req \in Requests :
          /\ request' = req
          /\ arrived' = req
    /\ pc' = "handling"
    /\ returned' = EmptyMap
    /\ realIP' = NoText
    /\ served' = served + 1
    /\ UNCHANGED <<calls, revision, config, err, excludedNetworks, excludedAddresses,
                   providers, preferredProvider, providersIPs, values,
                   nextCalls, forwarded>>

\* The handler has returned; the host drops the request.
Return ==
    /\ pc = "served"
    /\ pc' = "idle"
    /\ request' = NoRequest
    /\ arrived' = NoRequest
    /\ returned' = EmptyMap
    /\ realIP' = NoText
    /\ forwarded' = NoRequest
    /\ UNCHANGED <<calls, revision, config, err, excludedNetworks, excludedAddresses,
                   providers, preferredProvider, providersIPs, values, served,
                   nextCalls>>

\* ------------------------------------------------------------------------
\* ServeHTTP

\* TraefikRealIP.HasPreferredProvider
HasPreferredProvider == preferredProvider # NoText

\* TraefikRealIP.GetPreferredProvider
GetPreferredProvider == preferredProvider

\* The end of ServeHTTP returning early when no address was found.
Forward_ReturnWhenEmpty(final) ==
    /\ realIP' = final
    /\ request' = IF final # NoText
                  THEN Set(Set(request, XForwardedFor, final), XRealIp, final)
                  ELSE request
    /\ forwarded' = IF final # NoText THEN request' ELSE forwarded
    /\ nextCalls' = IF final # NoText THEN nextCalls + 1 ELSE nextCalls
    /\ pc' = "served"

\* The end of ServeHTTP in both revisions: the two headers are set when an
\* address was found, then the next handler is called with the request.
Forward(final) ==
    /\ realIP' = final
    /\ request' = IF final # NoText
                  THEN Set(Set(request, XForwardedFor, final), XRealIp, final)
                  ELSE request
    /\ forwarded' = request'
    /\ nextCalls' = nextCalls + 1
    /\ pc' = "served"

\* The providers ServeHTTP of src/real_ip.go asks before the generic one.
Asked ==
    IF HasPreferredProvider /\ GetPreferredProvider \in {CloudflareName, QratorName}
    THEN {GetPreferredProvider} ELSE {}

\* What ServeHTTP of src/real_ip.go can do with the provider maps `vals` on
\* the headers `req`: the maps it leaves, what each provider it asked
\* returned, and the local realIP it ends with.
FieldsOutcomes(vals, req) ==
    LET cfVals == fillValues(CloudflareHeaders, vals[CloudflareName], req)
        qVals == fillValues(QratorHeaders, vals[QratorName], req)
        gVals == fillValues(GenericHeaders, vals[GenericName], req)
    IN  { LET first == IF CloudflareName \in Asked THEN cf
                       ELSE IF QratorName \in Asked THEN q
                       ELSE NoText
              consulted == Asked \cup (IF first = NoText THEN {GenericName} ELSE {})
          IN  [values |-> [p \in DOMAIN vals |->
                              IF p \notin consulted THEN vals[p]
                              ELSE IF p = CloudflareName THEN cfVals
                              ELSE IF p = QratorName THEN qVals
                              ELSE gVals],
               returned |-> [p \in consulted |->
                              IF p = CloudflareName THEN cf
                              ELSE IF p = QratorName THEN q
                              ELSE GenericGetRealIP(gVals)],
               final |-> IF first = NoText THEN GenericGetRealIP(gVals) ELSE first] :
          cf \in CloudflareGetRealIP(cfVals), q \in QratorGetRealIP(qVals) }

\* ServeHTTP of src/real_ip.go.  A call of GetRealIP on a nil provider
\* panics: the handler does not return and the next handler is not called.
ServeHTTP ==
    /\ pc = "handling"
    /\ revision = "fields"
    /\ IF Asked \ providers # {}
       THEN /\ pc' = "panicked"
            /\ UNCHANGED <<values, returned, request, realIP, nextCalls, forwarded>>
       ELSE \E o \in FieldsOutcomes(values, request) :
               /\ values' = o.values
               /\ returned' = o.returned
               /\ Forward(o.final)
    /\ UNCHANGED <<calls, revision, config, err, excludedNetworks, excludedAddresses,
                   providers, preferredProvider, providersIPs, arrived, served>>

\* The second half of ServeHTTP of the registry revision, on the map the
\* first loop leaves: the generic entry is taken and deleted, then the
\* preferred provider's entry or, with no preference, the entry of the first
\* provider met ranging over trip.GetProviders(), a Go map.
Picks(recorded) ==
    LET generic == IF GenericName \in DOMAIN recorded
                   THEN recorded[GenericName] ELSE NoText
        others == MapDelete(recorded, GenericName)
    IN  IF DOMAIN others = {} THEN {generic}
        ELSE IF HasPreferredProvider
        THEN IF GetPreferredProvider \in DOMAIN others
             THEN {others[GetPreferredProvider]}
             ELSE {generic}
        ELSE IF providers \cap DOMAIN others = {}
        THEN {generic}
        ELSE {others[p] : p \in providers \cap DOMAIN others}

\* What ServeHTTP of the registry revision can do with the provider maps
\* `vals` and the results map `ips` on the headers `req`.
RegistryOutcomes(vals, ips, req) ==
    LET cfVals == fillValues(CloudflareHeaders, vals[CloudflareName], req)
        qVals == fillValues(QratorHeaders, vals[QratorName], req)
        gVals == fillValues(GenericHeaders, vals[GenericName], req)
    IN  UNION {
          LET result == [p \in providers |->
                            IF p = GenericName THEN GenericGetRealIP(gVals)
                            ELSE IF p = CloudflareName THEN cf ELSE q]
              found == {p \in providers : result[p] # NoText}
              recorded == [p \in DOMAIN ips \cup found |->
                              IF p \in found THEN result[p] ELSE ips[p]]
          IN  { [values |-> [p \in DOMAIN vals |->
                                IF p \notin providers THEN vals[p]
                                ELSE IF p = CloudflareName THEN cfVals
                                ELSE IF p = QratorName THEN qVals
                                ELSE gVals],
                 providersIPs |-> MapDelete(recorded, GenericName),
                 returned |-> result,
                 final |-> final] : final \in Picks(recorded) } :
          cf \in CloudflareGetRealIP(cfVals), q \in QratorGetRealIP(qVals) }

\* ServeHTTP of the registry revision.
ServeHTTPRegistry ==
    /\ pc = "handling"
    /\ revision = "registry"
    /\ \E o \in RegistryOutcomes(values, providersIPs, request) :
          /\ values' = o.values
          /\ providersIPs' = o.providersIPs
          /\ returned' = o.returned
          /\ Forward(o.final)
    /\ UNCHANGED <<calls, revision, config, err, excludedNetworks, excludedAddresses,
                   providers, preferredProvider, arrived, served>>

Next ==
    \/ New
    \/ NewRegistry
    \/ Receive
    \/ ServeHTTP
    \/ ServeHTTPRegistry
    \/ Return

Spec == Init /\ [][Next]_vars

\* ------------------------------------------------------------------------
\* ServeHTTP calls running concurrently on one instance.  Each call is a
\* goroutine of the host with its own request and locals; the providers'
\* values maps and trip.providersIPs belong to the instance and are reached
\* by every call without a lock.  A call advances by one access to a shared
\* map at a time; the reads of one GetRealIP loop, and the accesses of the
\* selection after the loop of the registry revision, are taken together.

\* The configurations of the instances run concurrently.
ConcurrentConfigs ==
    { c \in UsedConfigs :
        /\ c.excludedNetworks = <<Net127>>
        /\ c.providers = <<>>
        /\ ~c.providersIsNil
        /\ c.preferredProvider \in {NoText, CloudflareName} }

\* The requests of the concurrent calls: one with X-Real-Ip, one with a
\* forward chain, two with one cloudflare header each.
ConcurrentRequests ==
    { [NoRequest EXCEPT ![XRealIp] = <<" ", "10.0.0.20", " ">>],
      [NoRequest EXCEPT ![XForwardedFor] = <<"127.0.0.2", ",", " ", "10.0.0.21">>],
      [NoRequest EXCEPT ![TrueClientIP] = <<"10.0.0.40">>],
      [NoRequest EXCEPT ![CFConnectingIP] = <<"10.0.0.41">>] }

InitConcurrent ==
    /\ Init
    /\ config \in ConcurrentConfigs

\* Provider.GetHeaders
ProviderHeaders(provider) ==
    IF provider = GenericName THEN GenericHeaders
    ELSE IF provider = CloudflareName THEN CloudflareHeaders
    ELSE QratorHeaders

\* The results the read loop of Provider.GetRealIP can return on the map
\* `vals`.
GetRealIPOn(provider, vals) ==
    IF provider = GenericName THEN {GenericGetRealIP(vals)}
    ELSE IF provider = CloudflareName THEN CloudflareGetRealIP(vals)
    ELSE QratorGetRealIP(vals)

\* The host starts ServeHTTP for a request while the instance may be
\* running other calls.  src/real_ip.go turns to its preferred provider or
\* to the generic one; the registry revision starts ranging over its
\* providers.  (New of src/real_ip.go leaves no provider nil.)
Enter(c) ==
    /\ pc = "idle"
    /\ calls[c].at = "idle"
    /\ \E req \in ConcurrentRequests :
          calls' = [calls EXCEPT ![c] =
                      [at |-> IF revision = "fields" THEN "fill" ELSE "range",
                       request |-> req,
                       arrived |-> req,
                       provider |-> IF revision # "fields" THEN NoText
                                    ELSE IF Asked # {} THEN GetPreferredProvider
                                    ELSE GenericName,
                       header |-> IF revision = "fields" THEN 1 ELSE 0,
                       todo |-> IF revision = "fields" THEN {} ELSE providers,
                       result |-> NoText,
                       realIP |-> NoText]]
    /\ UNCHANGED <<revision, config, pc, err, excludedNetworks, excludedAddresses,
                   providers, preferredProvider, providersIPs, values, request,
                   arrived, returned, realIP, served, nextCalls, forwarded>>

\* The head of the loop over trip.GetProviders() of the registry revision:
\* any provider not met yet comes next; after the last one the selection
\* follows.
Range(c) ==
    /\ pc = "idle"
    /\ calls[c].at = "range"
    /\ IF calls[c].todo = {}
       THEN calls' = [calls EXCEPT ![c].at = "pick"]
       ELSE \E p \in calls[c].todo :
               calls' = [calls EXCEPT ![c].at = "fill",
                                      ![c].provider = p,
                                      ![c].header = 1,
                                      ![c].todo = @ \ {p}]
    /\ UNCHANGED <<revision, config, pc, err, excludedNetworks, excludedAddresses,
                   providers, preferredProvider, providersIPs, values, request,
                   arrived, returned, realIP, served, nextCalls, forwarded>>

\* One round of the loop of fillValues: the next header of the provider,
\* when the call's request carries it, is written trimmed to the provider's
\* values map.
Fill(c) ==
    /\ pc = "idle"
    /\ calls[c].at = "fill"
    /\ LET p == calls[c].provider
           h == ProviderHeaders(p)[calls[c].header]
           v == Get(calls[c].request, h)
           old == values[p]
       IN  /\ values' = IF v = NoText THEN values
                        ELSE [values EXCEPT ![p] =
                                [k \in DOMAIN old \cup {h} |->
                                    IF k = h THEN TrimSpace(v) ELSE old[k]]]
           /\ calls' = IF calls[c].header < Len(ProviderHeaders(p))
                       THEN [calls EXCEPT ![c].header = @ + 1]
                       ELSE [calls EXCEPT ![c].at = "get"]
    /\ UNCHANGED <<revision, config, pc, err, excludedNetworks, excludedAddresses,
                   providers, preferredProvider, providersIPs, request,
                   arrived, returned, realIP, served, nextCalls, forwarded>>

\* The read loop of GetRealIP on the provider's values map as it is now, and
\* what the handler does with the result: src/real_ip.go keeps a non-empty
\* result of the preferred provider and otherwise turns to the generic one;
\* the registry revision goes on to record a non-empty result.
GetRealIP(c) ==
    /\ pc = "idle"
    /\ calls[c].at = "get"
    /\ \E res \in GetRealIPOn(calls[c].provider, values[calls[c].provider]) :
          calls' =
             IF revision = "fields"
             THEN IF calls[c].provider # GenericName /\ res = NoText
                  THEN [calls EXCEPT ![c].at = "fill",
                                     ![c].provider = GenericName,
                                     ![c].header = 1]
                  ELSE [calls EXCEPT ![c].at = "finish",
                                     ![c].result = res,
                                     ![c].realIP = res]
             ELSE [calls EXCEPT ![c].at = IF res # NoText THEN "record" ELSE "range",
                                ![c].result = res]
    /\ UNCHANGED <<revision, config, pc, err, excludedNetworks, excludedAddresses,
                   providers, preferredProvider, providersIPs, values, request,
                   arrived, returned, realIP, served, nextCalls, forwarded>>

\* trip.providersIPs[provider.GetName()] = ip in the loop of the registry
\* revision.
Record(c) ==
    /\ pc = "idle"
    /\ calls[c].at = "record"
    /\ providersIPs' = [p \in DOMAIN providersIPs \cup {calls[c].provider} |->
                           IF p = calls[c].provider THEN calls[c].result
                           ELSE providersIPs[p]]
    /\ calls' = [calls EXCEPT ![c].at = "range"]
    /\ UNCHANGED <<revision, config, pc, err, excludedNetworks, excludedAddresses,
                   providers, preferredProvider, values, request,
                   arrived, returned, realIP, served, nextCalls, forwarded>>

\* The selection of the registry revision on trip.providersIPs as it is
\* now: the generic entry is taken and deleted, then the choice is made.
Pick(c) ==
    /\ pc = "idle"
    /\ calls[c].at = "pick"
    /\ \E final \in Picks(providersIPs) :
          calls' = [calls EXCEPT ![c].at = "finish", ![c].realIP = final]
    /\ providersIPs' = MapDelete(providersIPs, GenericName)
    /\ UNCHANGED <<revision, config, pc, err, excludedNetworks, excludedAddresses,
                   providers, preferredProvider, values, request,
                   arrived, returned, realIP, served, nextCalls, forwarded>>

\* The end of ServeHTTP: the call sets the two headers of its request when
\* it has an address and calls the next handler.
Finish(c) ==
    /\ pc = "idle"
    /\ calls[c].at = "finish"
    /\ calls' = [calls EXCEPT
                   ![c].at = "done",
                   ![c].request =
                       IF calls[c].realIP # NoText
                       THEN Set(Set(@, XForwardedFor, calls[c].realIP),
                                XRealIp, calls[c].realIP)
                       ELSE @]
    /\ nextCalls' = nextCalls + 1
    /\ UNCHANGED <<revision, config, pc, err, excludedNetworks, excludedAddresses,
                   providers, preferredProvider, providersIPs, values, request,
                   arrived, returned, realIP, served, forwarded>>

\* The shared map the next step of a call reaches, and whether it writes.
Touches(c) ==
    IF /\ calls[c].at = "fill"
       /\ Get(calls[c].request, ProviderHeaders(calls[c].provider)[calls[c].header]) # NoText
    THEN {[map |-> calls[c].provider, write |-> TRUE]}
    ELSE IF calls[c].at = "get"
    THEN {[map |-> calls[c].provider, write |-> FALSE]}
    ELSE IF calls[c].at \in {"record", "pick"}
    THEN {[map |-> <<"providersIPs">>, write |-> TRUE]}
    ELSE {}

\* Two calls are about to reach the same map, one of them writing, with
\* nothing ordering the two accesses.
DataRace ==
    \E c \in Calls, d \in Calls :
        /\ c # d
        /\ \E a \in Touches(c), b \in Touches(d) :
              a.map = b.map /\ (a.write \/ b.write)

\* The Go runtime can end the process when it meets unsynchronised accesses
\* to a map ("fatal error: concurrent map writes").
Throw ==
    /\ pc = "idle"
    /\ DataRace
    /\ pc' = "fatal"
    /\ UNCHANGED <<calls, revision, config, err, excludedNetworks, excludedAddresses,
                   providers, preferredProvider, providersIPs, values, request,
                   arrived, returned, realIP, served, nextCalls, forwarded>>

NextConcurrent ==
    \/ New
    \/ NewRegistry
    \/ \E c \in Calls : Enter(c)
    \/ \E c \in Calls : Range(c)
    \/ \E c \in Calls : Fill(c)
    \/ \E c \in Calls : GetRealIP(c)
    \/ \E c \in Calls : Record(c)
    \/ \E c \in Calls : Pick(c)
    \/ \E c \in Calls : Finish(c)
    \/ Throw

SpecConcurrent == InitConcurrent /\ [][NextConcurrent]_vars

\* ------------------------------------------------------------------------
\* Properties

\* An address lies in the network a configured CIDR text denotes: both agree
\* on the first bits, as many as the prefix length says.
InConfiguredNetwork(ip, cidr) ==
    /\ ParseCIDR(cidr) # NilNet
    /\ SubSeq(ip, 1, PrefixText[cidr[3]]) = SubSeq(IPText[cidr[1]], 1, PrefixText[cidr[3]])

\* Exclusion as the configuration states it: the text is no address, or its
\* address lies in a configured network or is a configured address.
ConfiguredExcluded(text) ==
    \/ ParseIP(text) = Nil
    \/ \E i \in 1..Len(config.excludedNetworks) :
          InConfiguredNetwork(ParseIP(text), config.excludedNetworks[i])
    \/ \E i \in 1..Len(config.excludedAddresses) :
          ParseIP(config.excludedAddresses[i]) = ParseIP(text)

\* The values the headers `headers` carry in a request, trimmed.
CarriedBy(headers, req) ==
    {TrimSpace(req[h]) : h \in {k \in headers : req[k] # NoText}}

\* The tokens of a forward chain, trimmed.
Tokens(text) == [i \in 1..Len(Split(text)) |-> TrimSpace(Split(text)[i])]

\* The headers a provider reads.
HeadersOf(provider) ==
    IF provider = GenericName THEN {XRealIp, XForwardedFor}
    ELSE IF provider = CloudflareName THEN {TrueClientIP, CFConnectingIP}
    ELSE {XQratorIPSource}

\* The candidates a provider has in a request that are not excluded.
Candidates(provider, req) ==
    {v \in CarriedBy(HeadersOf(provider) \ {XForwardedFor}, req) \cup
           (IF provider = GenericName /\ req[XForwardedFor] # NoText
            THEN {Tokens(req[XForwardedFor])[i] :
                     i \in 1..Len(Tokens(req[XForwardedFor]))}
            ELSE {}) :
        ~ConfiguredExcluded(v)}

\* The generic rule on one request alone: X-Real-Ip when present and not
\* excluded, else the leftmost token of X-Forwarded-For that is not excluded,
\* else nothing.
GenericRule(req) ==
    LET tokens == Tokens(req[XForwardedFor])
        good == {i \in 1..Len(tokens) : ~ConfiguredExcluded(tokens[i])}
    IN  IF req[XRealIp] # NoText /\ ~ConfiguredExcluded(TrimSpace(req[XRealIp]))
        THEN TrimSpace(req[XRealIp])
        ELSE IF req[XForwardedFor] # NoText /\ good # {}
        THEN tokens[CHOOSE i \in good : \A j \in good : i <= j]
        ELSE NoText

\* The providers a call of ServeHTTP consults under the configuration.
Consulted ==
    IF revision = "fields" THEN {GenericName} \cup Asked ELSE providers

\* The final addresses a newly constructed instance can resolve for a request.
FreshFinals(req) ==
    IF revision = "fields"
    THEN {o.final : o \in FieldsOutcomes(NoValues, req)}
    ELSE {o.final : o \in RegistryOutcomes(NoValues, EmptyMap, req)}

\* The final addresses ServeHTTP of the instance's revision can resolve for
\* a request from the provider maps `vals` and the results map `ips`.
Finals(vals, ips, req) ==
    IF revision = "fields"
    THEN {o.final : o \in FieldsOutcomes(vals, req)}
    ELSE {o.final : o \in RegistryOutcomes(vals, ips, req)}

\* C1: whenever ServeHTTP sets X-Forwarded-For and X-Real-Ip, the value it
\* writes parses as an IP address, lies inside no configured excluded network
\* and equals no configured excluded address.
C1_WrittenAddressNotExcluded ==
    (pc = "served" /\ realIP # NoText) =>
        /\ request[XForwardedFor] = realIP
        /\ ~ConfiguredExcluded(request[XForwardedFor])
        /\ ~ConfiguredExcluded(request[XRealIp])

\* A second request whose X-Real-Ip is an excluded address in another
\* textual form and whose forward chain starts with an excluded address got
\* the address behind them written.
C1_Witness ==
    /\ pc = "served"
    /\ served = 2
    /\ config.excludedAddresses # <<>>
    /\ arrived[XRealIp] = <<"::ffff:10.0.0.50">>
    /\ arrived[XForwardedFor] = <<"127.0.0.2", ",", " ", "10.0.0.21">>
    /\ request[XRealIp] = <<"10.0.0.21">>

\* C2: when preferredProvider is cloudflare or qrator (a provider the
\* instance holds) and the current request carries a non-excluded address in
\* a header of that provider, the final address is one of the non-excluded
\* addresses of that provider's headers in the current request.
C2_PreferredProviderOfCurrentRequest ==
    (/\ pc = "served"
     /\ preferredProvider \in {CloudflareName, QratorName} \cap providers
     /\ Candidates(preferredProvider, arrived) # {}) =>
        realIP \in Candidates(preferredProvider, arrived)

\* C3: when preferredProvider is cloudflare or qrator and the current request
\* carries no non-excluded value in any header of that provider, the final
\* address is the generic rule's result for the current request.
C3_FallsBackToGenericOfCurrentRequest ==
    (/\ pc = "served"
     /\ preferredProvider \in {CloudflareName, QratorName}
     /\ Candidates(preferredProvider, arrived) = {}) =>
        realIP = GenericRule(arrived)

\* C4: the address resolved for a request depends only on the request's
\* headers and the configuration: after any history it is an address a newly
\* constructed instance resolves for the same request.
C4_ResolutionIndependentOfHistory ==
    pc = "served" => realIP \in FreshFinals(arrived)

\* C5: if no consulted provider has a non-excluded candidate in the current
\* request's headers, ServeHTTP leaves every header of the request unchanged
\* and forwards it.
C5_NoCandidateLeavesRequestUnchanged ==
    (/\ pc = "served"
     /\ \A p \in Consulted : Candidates(p, arrived) = {}) =>
        /\ request = arrived
        /\ forwarded = arrived

\* C6: whenever ServeHTTP determines a non-empty final address, the request
\* handed to the next handler has X-Forwarded-For and X-Real-Ip both equal to
\* exactly that single address, whatever they carried on arrival.
C6_BothHeadersCarryFinalAddress ==
    (pc = "served" /\ realIP # NoText) =>
        /\ forwarded[XForwardedFor] = realIP
        /\ forwarded[XRealIp] = realIP
        /\ \A i \in 1..Len(realIP) : realIP[i] # ","

\* The request arrived with a chain in X-Forwarded-For and another address
\* in X-Real-Ip than the one resolved.
C6_Witness ==
    /\ pc = "served"
    /\ realIP = <<"10.0.0.30">>
    /\ arrived[XRealIp] = <<" ", "10.0.0.20", " ">>
    /\ arrived[XForwardedFor] = <<"127.0.0.2", ",", " ", "10.0.0.21">>
    /\ forwarded[XForwardedFor] = <<"10.0.0.30">>

\* C7: every ServeHTTP call invokes the next handler exactly once, after any
\* rewrite of X-Forwarded-For and X-Real-Ip, whatever the headers hold.
C7_NextCalledOnceAfterRewrite ==
    [][(pc = "handling" /\ pc' # "handling") =>
          /\ pc' = "served"
          /\ nextCalls' = nextCalls + 1
          /\ forwarded' = request'
          /\ realIP' # NoText =>
                /\ forwarded'[XForwardedFor] = realIP'
                /\ forwarded'[XRealIp] = realIP']_vars

\* A second request with only unparseable and excluded values was forwarded
\* as it arrived.
C7_Witness ==
    /\ pc = "served"
    /\ nextCalls = 2
    /\ realIP = NoText
    /\ arrived[XForwardedFor] = <<"unknown", ",", "127.0.0.1">>
    /\ forwarded = arrived

\* C8: for the first request a generic provider instance handles (its values
\* map is still empty), GetRealIP returns the request's trimmed X-Real-Ip
\* value if it is present and not excluded; otherwise the leftmost trimmed
\* token of X-Forwarded-For that is not excluded; otherwise the empty string.
C8_GenericRuleOnFirstRequest ==
    [][(/\ pc = "handling"
        /\ pc' = "served"
        /\ values[GenericName] = EmptyMap
        /\ GenericName \in DOMAIN returned') =>
          returned'[GenericName] = GenericRule(request)]_vars

\* On its first request the generic provider passed over an excluded
\* X-Real-Ip and an excluded first token and returned the second token.
C8_Witness ==
    /\ pc = "served"
    /\ served = 1
    /\ config.excludedAddresses # <<>>
    /\ arrived[XRealIp] = <<"::ffff:10.0.0.50">>
    /\ arrived[XForwardedFor] = <<"127.0.0.2", ",", " ", "10.0.0.21">>
    /\ GenericName \in DOMAIN returned
    /\ returned[GenericName] = <<"10.0.0.21">>

\* The candidate texts isExcludedIP is tried on.
CandidateTexts ==
    {<<t>> : t \in DOMAIN IPText} \cup
    {NoText, <<"unknown">>, <<" ", "10.0.0.20">>, <<"10.0.0.20", ",", "10.0.0.21">>}

\* C9: for every provider variant and every candidate, isExcludedIP returns
\* true exactly when the candidate does not parse as an IP address, or lies
\* inside a configured excluded network, or equals a configured excluded
\* address.
C9_IsExcludedIPMatchesConfiguration ==
    pc \in {"idle", "handling", "served"} =>
        \A c \in CandidateTexts :
            /\ GenericIsExcludedIP(c) = ConfiguredExcluded(c)
            /\ CloudflareIsExcludedIP(c) = ConfiguredExcluded(c)
            /\ QratorIsExcludedIP(c) = ConfiguredExcluded(c)

\* A request was served whose headers held an address excluded through
\* another textual form, an address of the excluded network and text that is
\* no address, while other addresses were let through.
C9_Witness ==
    /\ pc = "served"
    /\ arrived[XRealIp] = <<"::ffff:10.0.0.50">>
    /\ arrived[TrueClientIP] = <<"127.0.0.2">>
    /\ arrived[XForwardedFor] = <<"unknown", ",", "127.0.0.1">>
    /\ GenericIsExcludedIP(arrived[XRealIp])
    /\ CloudflareIsExcludedIP(arrived[TrueClientIP])
    /\ QratorIsExcludedIP(<<"unknown">>)
    /\ ~QratorIsExcludedIP(arrived[XQratorIPSource])
    /\ realIP = <<"10.0.0.30">>

ProviderNames == {GenericName, CloudflareName, QratorName}

\* The valid entries of the configured excluded addresses are in effect, and
\* nothing else is.
ValidAddressesInEffect ==
    /\ \A i \in 1..Len(config.excludedAddresses) :
          ParseIP(config.excludedAddresses[i]) # Nil =>
              \E j \in 1..Len(excludedAddresses) :
                  excludedAddresses[j] = ParseIP(config.excludedAddresses[i])
    /\ \A j \in 1..Len(excludedAddresses) :
          \E i \in 1..Len(config.excludedAddresses) :
              excludedAddresses[j] = ParseIP(config.excludedAddresses[i])

\* C10 as stated: New returns an error exactly when some excludedNetworks
\* entry is not a valid CIDR, or some providers entry is not one of generic,
\* cloudflare, qrator, or preferredProvider is non-empty and not one of those
\* names; a malformed excludedAddresses entry is dropped and the valid ones
\* stay in effect.
C10_Original ==
    pc # "new" =>
        /\ pc = "failed" <=>
              \/ \E i \in 1..Len(config.excludedNetworks) :
                    ParseCIDR(config.excludedNetworks[i]) = NilNet
              \/ \E i \in 1..Len(config.providers) :
                    config.providers[i] \notin ProviderNames
              \/ /\ config.preferredProvider # NoText
                 /\ config.preferredProvider \notin ProviderNames
        /\ pc # "failed" => ValidAddressesInEffect

\* C10 amended: as stated, except that New of the registry revision compares
\* each providers entry after lower-casing it and trimming the blanks around
\* it (New of src/real_ip.go compares it as written); preferredProvider is
\* compared as written in both.
C10_NewFailsExactlyOnInvalidEntries ==
    pc # "new" =>
        /\ pc = "failed" <=>
              \/ \E i \in 1..Len(config.excludedNetworks) :
                    ParseCIDR(config.excludedNetworks[i]) = NilNet
              \/ \E i \in 1..Len(config.providers) :
                    IF revision = "registry"
                    THEN TrimSpace(ToLower(config.providers[i])) \notin ProviderNames
                    ELSE config.providers[i] \notin ProviderNames
              \/ /\ config.preferredProvider # NoText
                 /\ config.preferredProvider \notin ProviderNames
        /\ pc # "failed" => ValidAddressesInEffect

\* New of the registry revision accepted a providers entry written with a
\* capital and a leading blank, and dropped the malformed excluded address
\* while keeping the valid one.
C10_Witness ==
    /\ pc = "idle"
    /\ revision = "registry"
    /\ config.providers = <<<<" ", "Cloudflare">>>>
    /\ providers = {GenericName, CloudflareName}
    /\ config.excludedAddresses = <<InvalidText, <<"10.0.0.50">>>>
    /\ excludedAddresses = <<IPText["10.0.0.50"]>>

\* The providers the configuration enables: all three under an empty
\* providers list, else the listed ones and generic.
EnabledByConfig ==
    IF config.providers = <<>> THEN ProviderNames
    ELSE {GenericName} \cup
         {p \in ProviderNames :
             \E i \in 1..Len(config.providers) :
                 TrimSpace(ToLower(config.providers[i])) = p}

\* A request without the headers of the providers the configuration does
\* not enable.
WithoutDisabledHeaders(req) ==
    [h \in HeaderNames |->
        IF \E p \in ProviderNames \ EnabledByConfig : h \in HeadersOf(p)
        THEN NoText ELSE req[h]]

\* C11: every provider ServeHTTP asks for an address is one the
\* configuration enables (all three under an empty providers list, else the
\* listed ones and generic), and the headers of the other providers do not
\* determine the final address: the handler could resolve the same address
\* from the same state for the request without those headers, also when such
\* a provider is the preferred one.
C11_OnlyEnabledProvidersDecide ==
    [][(pc = "handling" /\ pc' = "served") =>
          /\ DOMAIN returned' \subseteq EnabledByConfig
          /\ realIP' \in Finals(values, providersIPs, WithoutDisabledHeaders(request))]_vars

\* C12: with no preferred provider configured, the final address is the
\* result for the current request of the first provider, in the order
\* generic, cloudflare, qrator among the enabled ones, that has one:
\* generic's whenever generic has one, else cloudflare's, else qrator's, else
\* none.
C12_FixedOrderWithoutPreference ==
    (pc = "served" /\ config.preferredProvider = NoText) =>
        IF GenericRule(arrived) # NoText
        THEN realIP = GenericRule(arrived)
        ELSE IF CloudflareName \in EnabledByConfig /\ Candidates(CloudflareName, arrived) # {}
        THEN realIP \in Candidates(CloudflareName, arrived)
        ELSE IF QratorName \in EnabledByConfig /\ Candidates(QratorName, arrived) # {}
        THEN realIP \in Candidates(QratorName, arrived)
        ELSE realIP = NoText

\* C13: resolution is deterministic and idempotent: from the state and the
\* request ServeHTTP was called with there is one final address it can end
\* with, and a second run on the same request, as the first run left it and
\* the instance, can end with that address only.
C13_DeterministicAndIdempotent ==
    [][(pc = "handling" /\ pc' = "served") =>
          /\ Finals(values, providersIPs, request) = {realIP'}
          /\ Finals(values', providersIPs', request') = {realIP'}]_vars

\* C14: when two ServeHTTP calls run concurrently on one instance, each
\* request ends with a final address it would get handled alone, and no map
\* of the instance or its providers is written by one call while the other
\* reads or writes it.
C14_ConcurrentCallsIsolated ==
    /\ \A c \in Calls :
          calls[c].at = "done" => calls[c].realIP \in FreshFinals(calls[c].arrived)
    /\ ~DataRace
    /\ pc # "fatal"

\* C15: in src/real_ip.go, whatever providers list an accepted configuration
\* holds, New leaves the cloudflare and the qrator provider non-nil, and
\* ServeHTTP never calls GetRealIP on a nil provider.
C15_FieldProvidersNeverNil ==
    revision = "fields" =>
        /\ pc \notin {"new", "failed"} => {CloudflareName, QratorName} \subseteq providers
        /\ pc # "panicked"

\* Under a providers list naming neither cloudflare nor qrator and the
\* preference cloudflare, ServeHTTP of src/real_ip.go called GetRealIP of the
\* cloudflare provider and got an address from it.
C15_Witness ==
    /\ revision = "fields"
    /\ pc = "served"
    /\ config.providers = <<GenericName>>
    /\ preferredProvider = CloudflareName
    /\ CloudflareName \in DOMAIN returned
    /\ returned[CloudflareName] = <<"10.0.0.40">>

\* C16: whatever the earlier requests on the instance were, a request that
\* carries a non-empty X-Real-Ip value that is not excluded gets that value,
\* trimmed, as the result of the generic provider.
C16_PresentXRealIpOverwritesRemembered ==
    (/\ pc = "served"
     /\ GenericName \in DOMAIN returned
     /\ arrived[XRealIp] # NoText
     /\ ~ConfiguredExcluded(TrimSpace(arrived[XRealIp]))) =>
        returned[GenericName] = TrimSpace(arrived[XRealIp])

\* A second request with X-Real-Ip and no X-Forwarded-For, on an instance
\* whose generic provider remembers a forward chain and an X-Real-Ip value
\* of the request before, got its own X-Real-Ip value from the generic
\* provider.
C16_Witness ==
    /\ pc = "served"
    /\ served = 2
    /\ arrived[XRealIp] = <<" ", "10.0.0.20", " ">>
    /\ arrived[XForwardedFor] = NoText
    /\ XForwardedFor \in DOMAIN values[GenericName]
    /\ GenericName \in DOMAIN returned
    /\ returned[GenericName] = <<"10.0.0.20">>

====
